---- MODULE Spec2Model ----
(***************************************************************************)
(* little-exif: the PNG container codec (src/src/png/vec.rs) and the       *)
(* metadata accessors (src/src/metadata/get.rs).                           *)
(*                                                                         *)
(* A file buffer is a sequence of bytes (0..255).  A std::io::Cursor is a  *)
(* 0-based position into it.  Every function of vec.rs is an operator on   *)
(* byte sequences that returns a record with the outcome                   *)
(* (st = "Ok", an io::ErrorKind, or "panic" for an abnormal abort) and     *)
(* what it produced.  A function with several steps is a chain of          *)
(* operators, one per step, each handing what it computed to the next.     *)
(***************************************************************************)
EXTENDS Integers, Sequences, FiniteSets, TLC

(***************************************************************************)
(* Bytes and 32-bit words                                                  *)
(***************************************************************************)
Byte == 0..255

Min(a, b) == IF a < b THEN a ELSE b

RECURSIVE XorN(_, _, _)
XorN(a, b, n) ==
    IF n = 0 THEN 0
    ELSE (((a % 2) + (b % 2)) % 2) + 2 * XorN(a \div 2, b \div 2, n - 1)

\* bitwise exclusive or of two 4-bit values, tabulated
XorNibble == [a \in 0..15 |-> [b \in 0..15 |-> XorN(a, b, 4)]]

Xor8(a, b) ==
    XorNibble[a % 16][b % 16] + 16 * XorNibble[a \div 16][b \div 16]

Xor16(a, b) ==
    Xor8(a % 256, b % 256) + 256 * Xor8(a \div 256, b \div 256)

(***************************************************************************)
(* A u32 is kept as its four bytes, most significant first (the model      *)
(* checker TLC has 32-bit signed integers).  U32Bytes(hi, lo) builds one   *)
(* from its two 16-bit halves.                                             *)
(***************************************************************************)
U32Bytes(hi, lo) == <<hi \div 256, hi % 256, lo \div 256, lo % 256>>

\* (word >> (8 * (3 - i))) as u8, for i in 0..3
ByteOf(word, i) == word[i + 1]

\* a length below 2^31 as a u32
U32OfLength(n) == U32Bytes(n \div 65536, n % 65536)

(***************************************************************************)
(* CRC-32/ISO-HDLC (crc crate, CRC_32_ISO_HDLC): reflected polynomial      *)
(* 0xEDB88320, initial value 0xFFFFFFFF, final xor 0xFFFFFFFF.             *)
(***************************************************************************)
CRC_POLY_HI == 60856

CRC_POLY_LO == 33568

\* n steps of the reflected bitwise division on the word hi * 2^16 + lo
RECURSIVE CrcShift(_, _, _)
CrcShift(hi, lo, n) ==
    IF n = 0 THEN U32Bytes(hi, lo)
    ELSE IF lo % 2 = 1
    THEN CrcShift(Xor16(hi \div 2, CRC_POLY_HI),
                  Xor16((lo \div 2) + 32768 * (hi % 2), CRC_POLY_LO), n - 1)
    ELSE CrcShift(hi \div 2, (lo \div 2) + 32768 * (hi % 2), n - 1)

CrcTable == [i \in 0..255 |-> CrcShift(0, i, 8)]

\* table entry t xor (crc >> 8)
CrcMix(t, crc) ==
    <<t[1], Xor8(t[2], crc[1]), Xor8(t[3], crc[2]), Xor8(t[4], crc[3])>>

\* one byte: crc = table[(crc ^ byte) & 0xFF] ^ (crc >> 8)
CrcStep(crc, byte) == CrcMix(CrcTable[Xor8(crc[4], byte)], crc)

\* the bytes s[i..j] folded into crc in order; the range is split in halves
\* and the left half is finished before the right one starts
RECURSIVE CrcUpdate(_, _, _, _)
RECURSIVE CrcRight(_, _, _, _)
CrcUpdate(crc, s, i, j) ==
    IF i > j THEN crc
    ELSE IF i = j THEN CrcStep(crc, s[i])
    ELSE CrcRight(CrcUpdate(crc, s, i, (i + j) \div 2), s, ((i + j) \div 2) + 1, j)

CrcRight(left, s, i, j) ==
    IF left[1] \in Byte THEN CrcUpdate(left, s, i, j) ELSE left

Complement4(c) == <<255 - c[1], 255 - c[2], 255 - c[3], 255 - c[4]>>

\* crc_struct.checksum(bytes)
checksum(s) == Complement4(CrcUpdate(<<255, 255, 255, 255>>, s, 1, Len(s)))

(***************************************************************************)
(* Constants of the PNG codec                                              *)
(***************************************************************************)
PNG_SIGNATURE == <<137, 80, 78, 71, 13, 10, 26, 10>>

\* "Raw profile type exif", NUL, NUL
RAW_PROFILE_TYPE_EXIF ==
    <<82, 97, 119, 32, 112, 114, 111, 102, 105, 108, 101, 32,
      116, 121, 112, 101, 32, 101, 120, 105, 102, 0, 0>>

NAME_zTXt == <<122, 84, 88, 116>>

NAME_IEND == <<73, 69, 78, 68>>

NAME_IHDR == <<73, 72, 68, 82>>

NAME_IDAT == <<73, 68, 65, 84>>

\* a chunk length of 2^31 or more is kept as 2^31 - 1: no buffer is that
\* long, so the read of its payload falls short either way
LENGTH_CAP == 2147483647

(***************************************************************************)
(* Outcomes: io_error!(kind, message), Ok, or an abnormal abort            *)
(***************************************************************************)
MSG_SIGNATURE == "Can't open PNG file - Wrong signature!"

MSG_START == "Could not read start of chunk"

MSG_DATA == "Could not read chunk data"

MSG_CRC == "Could not read chunk CRC"

MSG_CHECKSUM == "Checksum check failed while reading PNG!"

MSG_NAME == "Invalid PNG chunk name"

MSG_INFLATE == "Could not inflate compressed chunk data!"

MSG_NONE == "No metadata found!"

MSG_ENCODE == "metadata.encode() failed"

(***************************************************************************)
(* std::io::Cursor over a byte vector: read(n) copies what is left, up to  *)
(* n bytes, and advances by the number of bytes copied.                    *)
(***************************************************************************)
cursor_take(b, pos, k) == [data |-> SubSeq(b, pos + 1, pos + k), pos |-> pos + k]

cursor_read(b, pos, n) ==
    cursor_take(b, pos, Min(n, IF pos >= Len(b) THEN 0 ELSE Len(b) - pos))

(***************************************************************************)
(* String::from_utf8 on the four bytes of a chunk name                     *)
(***************************************************************************)
IsCont(s, i) == i <= Len(s) /\ s[i] >= 128 /\ s[i] <= 191

RECURSIVE IsUtf8(_, _)
IsUtf8(s, i) ==
    IF i > Len(s) THEN TRUE
    ELSE CASE s[i] < 128 -> IsUtf8(s, i + 1)
           [] s[i] >= 194 /\ s[i] <= 223 -> IsCont(s, i + 1) /\ IsUtf8(s, i + 2)
           [] s[i] >= 224 /\ s[i] <= 239 ->
                /\ IsCont(s, i + 1) /\ IsCont(s, i + 2)
                /\ (s[i] = 224 => s[i + 1] >= 160)
                /\ (s[i] = 237 => s[i + 1] <= 159)
                /\ IsUtf8(s, i + 3)
           [] s[i] >= 240 /\ s[i] <= 244 ->
                /\ IsCont(s, i + 1) /\ IsCont(s, i + 2) /\ IsCont(s, i + 3)
                /\ (s[i] = 240 => s[i + 1] >= 144)
                /\ (s[i] = 244 => s[i + 1] <= 143)
                /\ IsUtf8(s, i + 4)
           [] OTHER -> FALSE

(***************************************************************************)
(* PngChunk::from_string (src/png/png_chunk.rs is not part of the sources  *)
(* at hand): the accepted names are the chunk types of the PNG standard.   *)
(***************************************************************************)
AcceptedNames ==
    { NAME_IHDR, NAME_IDAT, NAME_IEND, NAME_zTXt,
      <<80, 76, 84, 69>>,      \* PLTE
      <<116, 69, 88, 116>>,    \* tEXt
      <<105, 84, 88, 116>> }   \* iTXt

PngChunk_from_string(name, length) ==
    [ok |-> name \in AcceptedNames, chunk |-> [name |-> name, length |-> length]]

(***************************************************************************)
(* check_signature: the cursor position after the signature, or the error  *)
(***************************************************************************)
\* variant: only the four bytes of the "\x89PNG" magic are compared
check_signature_magic(file_buffer) ==
    IF Len(file_buffer) < 8
    THEN [st |-> "panic", msg |-> "range end index 8 out of range", pos |-> 0]
    ELSE IF \A i \in 1..4 : file_buffer[i] = PNG_SIGNATURE[i]
    THEN [st |-> "Ok", msg |-> "", pos |-> 8]
    ELSE [st |-> "InvalidData", msg |-> MSG_SIGNATURE, pos |-> 0]

check_signature(file_buffer) ==
    IF Len(file_buffer) < 8
    THEN [st |-> "panic", msg |-> "range end index 8 out of range", pos |-> 0]
    ELSE IF Cardinality({i \in 1..8 : file_buffer[i] = PNG_SIGNATURE[i]})
              = Len(PNG_SIGNATURE)
    THEN [st |-> "Ok", msg |-> "", pos |-> 8]
    ELSE [st |-> "InvalidData", msg |-> MSG_SIGNATURE, pos |-> 0]

(***************************************************************************)
(* get_next_chunk_descriptor: reads one chunk at the cursor.  Its steps:   *)
(* the 8-byte start, the payload, the CRC trailer, the checksum            *)
(* comparison, the descriptor.                                             *)
(***************************************************************************)
chunk_length_of(chunk_start) ==
    IF chunk_start[1] >= 128 THEN LENGTH_CAP
    ELSE ((chunk_start[1] * 256 + chunk_start[2]) * 256 + chunk_start[3]) * 256
         + chunk_start[4]

NoChunk == [name |-> <<>>, length |-> 0]

ChunkFail(kind, m) == [st |-> kind, msg |-> m, chunk |-> NoChunk, pos |-> 0]

descriptor_made(made, pos) ==
    IF made.ok
    THEN [st |-> "Ok", msg |-> "", chunk |-> made.chunk, pos |-> pos]
    ELSE ChunkFail("Other", MSG_NAME)

\* variant: the stored CRC is read but not compared
descriptor_checked_unverified(chunk_name, chunk_length, trailer, crc) ==
    IF ~IsUtf8(chunk_name, 1)
    THEN ChunkFail("panic", "unwrap on FromUtf8Error")
    ELSE descriptor_made(PngChunk_from_string(chunk_name, chunk_length), trailer.pos)

descriptor_checked(chunk_name, chunk_length, trailer, crc) ==
    IF \E i \in 0..3 : ByteOf(crc, i) # trailer.data[i + 1]
    THEN ChunkFail("InvalidData", MSG_CHECKSUM)
    ELSE IF ~IsUtf8(chunk_name, 1)
    THEN ChunkFail("panic", "unwrap on FromUtf8Error")
    ELSE descriptor_made(PngChunk_from_string(chunk_name, chunk_length), trailer.pos)

descriptor_trailer(chunk_name, chunk_length, body, trailer) ==
    IF Len(trailer.data) # 4 THEN ChunkFail("Other", MSG_CRC)
    ELSE descriptor_checked(chunk_name, chunk_length, trailer,
                            checksum(chunk_name \o body.data))

descriptor_body(b, chunk_name, chunk_length, body) ==
    IF Len(body.data) # chunk_length THEN ChunkFail("Other", MSG_DATA)
    ELSE descriptor_trailer(chunk_name, chunk_length, body,
                            cursor_read(b, body.pos, 4))

descriptor_start(b, head) ==
    IF Len(head.data) # 8 THEN ChunkFail("Other", MSG_START)
    ELSE descriptor_body(b, SubSeq(head.data, 5, 8), chunk_length_of(head.data),
                         cursor_read(b, head.pos, chunk_length_of(head.data)))

get_next_chunk_descriptor(b, pos) == descriptor_start(b, cursor_read(b, pos, 8))

(***************************************************************************)
(* parse_png: the signature, then chunk descriptors up to the first IEND   *)
(***************************************************************************)
RECURSIVE parse_loop(_, _, _)
RECURSIVE parse_push(_, _, _)
parse_loop(b, pos, chunks) == parse_push(b, chunks, get_next_chunk_descriptor(b, pos))

\* variant: the loop does not stop at IEND
parse_push_nobreak(b, chunks, d) ==
    IF d.st # "Ok" THEN [st |-> d.st, msg |-> d.msg, chunks |-> <<>>]
    ELSE parse_loop(b, d.pos, Append(chunks, d.chunk))

\* variant: running out of bytes at a chunk start ends the stream
parse_push_eof(b, chunks, d) ==
    IF d.st # "Ok" /\ d.msg = MSG_START /\ chunks # <<>>
    THEN [st |-> "Ok", msg |-> "", chunks |-> chunks]
    ELSE IF d.st # "Ok" THEN [st |-> d.st, msg |-> d.msg, chunks |-> <<>>]
    ELSE IF d.chunk.name = NAME_IEND
    THEN [st |-> "Ok", msg |-> "", chunks |-> Append(chunks, d.chunk)]
    ELSE parse_loop(b, d.pos, Append(chunks, d.chunk))

parse_push(b, chunks, d) ==
    IF d.st # "Ok" THEN [st |-> d.st, msg |-> d.msg, chunks |-> <<>>]
    ELSE IF d.chunk.name = NAME_IEND
    THEN [st |-> "Ok", msg |-> "", chunks |-> Append(chunks, d.chunk)]
    ELSE parse_loop(b, d.pos, Append(chunks, d.chunk))

parse_signed(file_buffer, sig) ==
    IF sig.st # "Ok" THEN [st |-> sig.st, msg |-> sig.msg, chunks |-> <<>>]
    ELSE parse_loop(file_buffer, sig.pos, <<>>)

parse_png(file_buffer) == parse_signed(file_buffer, check_signature(file_buffer))

(***************************************************************************)
(* util::range_remove and util::insert_multiple_at (src/util.rs is not     *)
(* part of the sources at hand): remove the bytes [start, end) in place,   *)
(* insert a byte run at an index; an index past the end of the vector      *)
(* aborts, as every Vec operation does.                                    *)
(***************************************************************************)
range_remove(vec, start, end) ==
    IF start > end \/ end > Len(vec)
    THEN [ok |-> FALSE, vec |-> vec]
    ELSE [ok |-> TRUE, vec |-> SubSeq(vec, 1, start) \o SubSeq(vec, end + 1, Len(vec))]

insert_multiple_at(vec, index, elements) ==
    IF index > Len(vec)
    THEN [ok |-> FALSE, vec |-> vec]
    ELSE [ok |-> TRUE,
          vec |-> SubSeq(vec, 1, index) \o elements \o SubSeq(vec, index + 1, Len(vec))]

(***************************************************************************)
(* The comparison loop of clear_metadata and read_metadata:                *)
(*   for i in 0..RAW_PROFILE_TYPE_EXIF.len()                               *)
(*       if zTXt_chunk_data[i] != RAW_PROFILE_TYPE_EXIF[i] { false; break }*)
(* "differs" at the first differing index; "matches" when all 23 agree;    *)
(* "panic" when the data ends before a difference is met (index out of     *)
(* bounds).                                                                *)
(***************************************************************************)
\* variant: data as long as the prefix is taken to match it
compare_prefix_lengthonly(zTXt_chunk_data) ==
    IF Len(zTXt_chunk_data) >= Len(RAW_PROFILE_TYPE_EXIF) THEN "matches"
    ELSE IF \E i \in 1..Len(zTXt_chunk_data) :
                zTXt_chunk_data[i] # RAW_PROFILE_TYPE_EXIF[i]
    THEN "differs"
    ELSE "panic"

compare_prefix(zTXt_chunk_data) ==
    IF \E i \in 1..Min(Len(RAW_PROFILE_TYPE_EXIF), Len(zTXt_chunk_data)) :
           zTXt_chunk_data[i] # RAW_PROFILE_TYPE_EXIF[i]
    THEN "differs"
    ELSE IF Len(zTXt_chunk_data) < Len(RAW_PROFILE_TYPE_EXIF) THEN "panic"
    ELSE "matches"

(***************************************************************************)
(* clear_metadata: parse, then walk the descriptors with a cursor (pos,    *)
(* which Cursor::new leaves at 0) and the running offset seek_counter      *)
(* (which starts at 8), removing each zTXt chunk whose bytes at the cursor *)
(* start with the profile prefix.  The descriptors are those of the buffer *)
(* as it was parsed; the cursor keeps its position when bytes are removed. *)
(***************************************************************************)
RECURSIVE clear_loop(_, _, _, _, _)
RECURSIVE clear_read(_, _, _, _, _)
RECURSIVE clear_compared(_, _, _, _, _, _)
RECURSIVE clear_removed(_, _, _, _, _, _)
clear_loop(b, chunks, k, pos, seek_counter) ==
    IF k > Len(chunks) THEN [st |-> "Ok", msg |-> "", buf |-> b]
    ELSE IF chunks[k].name # NAME_zTXt
    THEN clear_loop(b, chunks, k + 1, pos + chunks[k].length + 12,
                    seek_counter + chunks[k].length + 12)
    ELSE clear_read(b, chunks, k, seek_counter,
                    cursor_read(b, pos + 8, chunks[k].length))

clear_read(b, chunks, k, seek_counter, rd) ==
    IF Len(rd.data) # chunks[k].length
    THEN [st |-> "Other", msg |-> MSG_DATA, buf |-> b]
    ELSE clear_compared(b, chunks, k, seek_counter, rd.pos + 4,
                        compare_prefix(rd.data))

\* variant: a zTXt chunk that differs from the prefix is removed as well
clear_compared_nocontinue(b, chunks, k, seek_counter, after, verdict) ==
    IF verdict = "panic"
    THEN [st |-> "panic", msg |-> "index out of bounds", buf |-> b]
    ELSE clear_removed(b, chunks, k, seek_counter, after,
                       range_remove(b, seek_counter, after))

clear_compared(b, chunks, k, seek_counter, after, verdict) ==
    IF verdict = "panic"
    THEN [st |-> "panic", msg |-> "index out of bounds", buf |-> b]
    ELSE IF verdict = "differs"
    THEN clear_loop(b, chunks, k + 1, after, seek_counter)
    ELSE clear_removed(b, chunks, k, seek_counter, after,
                       range_remove(b, seek_counter, after))

clear_removed(b, chunks, k, seek_counter, after, removed) ==
    IF ~removed.ok
    THEN [st |-> "panic", msg |-> "range out of bounds", buf |-> b]
    ELSE clear_loop(removed.vec, chunks, k + 1, after, seek_counter)

\* variant: the cursor starts after the signature, where seek_counter starts
clear_parsed_aligned(file_buffer, parse_png_result) ==
    IF parse_png_result.st # "Ok"
    THEN [st |-> parse_png_result.st, msg |-> parse_png_result.msg,
          buf |-> file_buffer]
    ELSE clear_loop(file_buffer, parse_png_result.chunks, 1, 8, 8)

clear_parsed(file_buffer, parse_png_result) ==
    IF parse_png_result.st # "Ok"
    THEN [st |-> parse_png_result.st, msg |-> parse_png_result.msg,
          buf |-> file_buffer]
    ELSE clear_loop(file_buffer, parse_png_result.chunks, 1, 0, 8)

clear_metadata(file_buffer) == clear_parsed(file_buffer, parse_png(file_buffer))

(***************************************************************************)
(* miniz_oxide compress_to_vec_zlib / decompress_to_vec_zlib.  The model   *)
(* writes the zlib envelope with one stored (uncompressed) deflate block:  *)
(*   78 01 | 01 LEN(lo,hi) NLEN(lo,hi) | data | Adler-32 (big-endian)      *)
(* and inflates exactly such streams; every other byte string fails.       *)
(***************************************************************************)
ADLER_MOD == 65521

\* (a, b) of Adler-32 after the bytes s[i..], from the running pair
RECURSIVE AdlerFrom(_, _, _, _)
AdlerFrom(s, i, a, b) ==
    IF i > Len(s) THEN <<b \div 256, b % 256, a \div 256, a % 256>>
    ELSE IF a + b >= 0
    THEN AdlerFrom(s, i + 1, (a + s[i]) % ADLER_MOD, (b + a + s[i]) % ADLER_MOD)
    ELSE <<>>

adler32(s) == AdlerFrom(s, 1, 1, 0)

zlib_stored(data, n) ==
    <<120, 1, 1, n % 256, n \div 256, 255 - (n % 256), 255 - (n \div 256)>>
    \o data \o adler32(data)

compress_to_vec_zlib(data) == zlib_stored(data, Len(data))

zlib_stored_data(z, n) ==
    IF /\ z[1] = 120 /\ z[2] = 1 /\ z[3] = 1
       /\ z[6] = 255 - z[4] /\ z[7] = 255 - z[5]
       /\ Len(z) = 11 + n
       /\ SubSeq(z, 8 + n, 11 + n) = adler32(SubSeq(z, 8, 7 + n))
    THEN [ok |-> TRUE, data |-> SubSeq(z, 8, 7 + n)]
    ELSE [ok |-> FALSE, data |-> <<>>]

decompress_to_vec_zlib(z) ==
    IF Len(z) < 11 THEN [ok |-> FALSE, data |-> <<>>]
    ELSE zlib_stored_data(z, z[4] + 256 * z[5])

(***************************************************************************)
(* encode_metadata_png / decode_metadata_png (src/png/mod.rs is not part   *)
(* of the sources at hand): the raw-profile text form, here                *)
(*   "\nexif\n" ++ lower-case ASCII hex of every byte ++ "\n".             *)
(***************************************************************************)
PROFILE_HEAD == <<10, 101, 120, 105, 102, 10>>

HexDigit(n) == IF n < 10 THEN 48 + n ELSE 87 + n

HexValue(c) ==
    IF c >= 48 /\ c <= 57 THEN c - 48
    ELSE IF c >= 97 /\ c <= 102 THEN c - 87
    ELSE -1

encode_metadata_png(exif_vec) ==
    PROFILE_HEAD
    \o [i \in 1..(2 * Len(exif_vec)) |->
            IF i % 2 = 1 THEN HexDigit(exif_vec[(i + 1) \div 2] \div 16)
            ELSE HexDigit(exif_vec[i \div 2] % 16)]
    \o <<10>>

unhex(hex) ==
    IF Len(hex) % 2 = 0 /\ \A i \in 1..Len(hex) : HexValue(hex[i]) >= 0
    THEN [ok |-> TRUE,
          data |-> [i \in 1..(Len(hex) \div 2) |->
                       16 * HexValue(hex[2 * i - 1]) + HexValue(hex[2 * i])]]
    ELSE [ok |-> FALSE, data |-> <<>>]

decode_metadata_png(text) ==
    IF /\ Len(text) >= Len(PROFILE_HEAD) + 1
       /\ SubSeq(text, 1, Len(PROFILE_HEAD)) = PROFILE_HEAD
       /\ text[Len(text)] = 10
    THEN unhex(SubSeq(text, Len(PROFILE_HEAD) + 1, Len(text) - 1))
    ELSE [ok |-> FALSE, data |-> <<>>]

(***************************************************************************)
(* read_metadata: parse, then scan from the signature boundary for the     *)
(* first zTXt chunk that starts with the profile prefix.                   *)
(***************************************************************************)
read_decoded(decoded) ==
    IF ~decoded.ok
    THEN [st |-> "panic", msg |-> "unwrap on decode_metadata_png", data |-> <<>>]
    ELSE [st |-> "Ok", msg |-> "", data |-> decoded.data]

read_inflated(inflated) ==
    IF ~inflated.ok THEN [st |-> "Other", msg |-> MSG_INFLATE, data |-> <<>>]
    ELSE read_decoded(decode_metadata_png(inflated.data))

RECURSIVE read_loop(_, _, _, _)
RECURSIVE read_chunk(_, _, _, _)
RECURSIVE read_compared(_, _, _, _, _)
read_loop(b, chunks, k, pos) ==
    IF k > Len(chunks) THEN [st |-> "Other", msg |-> MSG_NONE, data |-> <<>>]
    ELSE IF chunks[k].name # NAME_zTXt
    THEN read_loop(b, chunks, k + 1, pos + chunks[k].length + 12)
    ELSE read_chunk(b, chunks, k, cursor_read(b, pos + 8, chunks[k].length))

read_chunk(b, chunks, k, rd) ==
    IF Len(rd.data) # chunks[k].length
    THEN [st |-> "Other", msg |-> MSG_DATA, data |-> <<>>]
    ELSE read_compared(b, chunks, k, rd, compare_prefix(rd.data))

read_compared(b, chunks, k, rd, verdict) ==
    IF verdict = "panic"
    THEN [st |-> "panic", msg |-> "index out of bounds", data |-> <<>>]
    ELSE IF verdict = "differs"
    THEN read_loop(b, chunks, k + 1, rd.pos + 4)
    ELSE read_inflated(decompress_to_vec_zlib(
             SubSeq(rd.data, Len(RAW_PROFILE_TYPE_EXIF) + 1, Len(rd.data))))

read_parsed(file_buffer, parse_png_result) ==
    IF parse_png_result.st # "Ok"
    THEN [st |-> parse_png_result.st, msg |-> parse_png_result.msg, data |-> <<>>]
    ELSE read_loop(file_buffer, parse_png_result.chunks, 1,
                   check_signature(file_buffer).pos)

read_metadata(file_buffer) == read_parsed(file_buffer, parse_png(file_buffer))

(***************************************************************************)
(* write_metadata(file_buffer, metadata); `encoded` is the result of       *)
(* metadata.encode(): [ok, bytes].                                         *)
(***************************************************************************)
append_crc(zTXt_chunk_data) == zTXt_chunk_data \o checksum(zTXt_chunk_data)

\* the new chunk without its length field: type, prefix, compressed, CRC
new_chunk_body(generic_bytes) ==
    append_crc(NAME_zTXt \o RAW_PROFILE_TYPE_EXIF
               \o compress_to_vec_zlib(encode_metadata_png(generic_bytes)))

\* chunk_data_len = zTXt_chunk_data.len() as u32 - 8, most significant first
\* variant: only the 4 bytes of the CRC are subtracted
chunk_data_len_buffer_nocrc(zTXt_chunk_data) == U32OfLength(Len(zTXt_chunk_data) - 4)

chunk_data_len_buffer(zTXt_chunk_data) == U32OfLength(Len(zTXt_chunk_data) - 8)

write_second(file_buffer, insert_position, zTXt_chunk_data, first) ==
    IF ~first.ok
    THEN [st |-> "panic", msg |-> "insertion index out of bounds",
          buf |-> file_buffer]
    ELSE [st |-> "Ok", msg |-> "",
          buf |-> insert_multiple_at(first.vec, insert_position + 4,
                                     zTXt_chunk_data).vec]

write_first(file_buffer, seek_start, zTXt_chunk_data) ==
    write_second(file_buffer, seek_start, zTXt_chunk_data,
                 insert_multiple_at(file_buffer, seek_start,
                                    chunk_data_len_buffer(zTXt_chunk_data)))

IHDR_length_of(reparsed) ==
    IF reparsed.st = "Ok" THEN reparsed.chunks[1].length ELSE 0

\* variant: the insert position leaves out the 12 bytes around the payload
write_reparsed_nooverhead(file_buffer, encoded, reparsed) ==
    IF reparsed.st = "panic"
    THEN [st |-> "panic", msg |-> reparsed.msg, buf |-> file_buffer]
    ELSE IF ~encoded.ok
    THEN [st |-> "EncodeError", msg |-> MSG_ENCODE, buf |-> file_buffer]
    ELSE write_first(file_buffer,
                     Len(PNG_SIGNATURE) + IHDR_length_of(reparsed),
                     new_chunk_body(encoded.bytes))

write_reparsed(file_buffer, encoded, reparsed) ==
    IF reparsed.st = "panic"
    THEN [st |-> "panic", msg |-> reparsed.msg, buf |-> file_buffer]
    ELSE IF ~encoded.ok
    THEN [st |-> "EncodeError", msg |-> MSG_ENCODE, buf |-> file_buffer]
    ELSE write_first(file_buffer,
                     Len(PNG_SIGNATURE) + IHDR_length_of(reparsed) + 12,
                     new_chunk_body(encoded.bytes))

write_cleared(encoded, cleared) ==
    IF cleared.st # "Ok" THEN cleared
    ELSE write_reparsed(cleared.buf, encoded, parse_png(cleared.buf))

write_metadata(file_buffer, encoded) ==
    write_cleared(encoded, clear_metadata(file_buffer))

(***************************************************************************)
(* Inputs: PNG files as an encoder writes them (length, type, payload,     *)
(* CRC per chunk), and metadata containers.                                *)
(***************************************************************************)
MakeChunk(name, payload) ==
    U32OfLength(Len(payload)) \o name \o payload \o checksum(name \o payload)

\* a 1x1 8-bit greyscale header
IHDR_PAYLOAD == <<0, 0, 0, 1, 0, 0, 0, 1, 8, 0, 0, 0, 0>>

IDAT_PAYLOAD == <<120, 1, 99, 96, 0, 0, 0, 2, 0, 1>>

\* an unrelated zTXt chunk: keyword "C", NUL, method 0, one data byte
OTHER_ZTXT_PAYLOAD == <<67, 0, 0, 7>>

\* Metadata containers: endianness and the tags of the IFDs
MetaLittle == [endian |-> "Little", ifds |-> <<>>]

MetaBig ==
    [endian |-> "Big",
     ifds |-> <<[group |-> "GENERIC", nr |-> 0, tags |-> <<270>>]>>]

MetaInputs == {MetaLittle, MetaBig}

RECURSIVE TagBytes(_, _, _)
TagBytes(endian, tags, i) ==
    IF i > Len(tags) THEN <<>>
    ELSE (IF endian = "Big" THEN <<tags[i] \div 256, tags[i] % 256>>
          ELSE <<tags[i] % 256, tags[i] \div 256>>)
         \o TagBytes(endian, tags, i + 1)

RECURSIVE IfdBytes(_, _, _)
IfdBytes(endian, ifds, i) ==
    IF i > Len(ifds) THEN <<>>
    ELSE TagBytes(endian, ifds[i].tags, 1) \o IfdBytes(endian, ifds, i + 1)

(***************************************************************************)
(* Metadata::encode (src/metadata/mod.rs is not part of the sources at     *)
(* hand): the byte-order mark, then every tag code of every IFD in the     *)
(* container's byte order.  It returns a Result; `succeeds` is the         *)
(* caller-visible outcome.                                                 *)
(***************************************************************************)
Metadata_encode(metadata, succeeds) ==
    IF succeeds
    THEN [ok |-> TRUE,
          bytes |-> (IF metadata.endian = "Big" THEN <<77, 77>> ELSE <<73, 73>>)
                    \o IfdBytes(metadata.endian, metadata.ifds, 1)]
    ELSE [ok |-> FALSE, bytes |-> <<>>]

\* the chunks a file may hold between IHDR and IDAT
MidKinds == {"exif", "other", "empty"}

MidChunk(kind) ==
    CASE kind = "exif" ->
            MakeChunk(NAME_zTXt,
                      RAW_PROFILE_TYPE_EXIF
                      \o compress_to_vec_zlib(encode_metadata_png(
                             Metadata_encode(MetaLittle, TRUE).bytes)))
      [] kind = "other" -> MakeChunk(NAME_zTXt, OTHER_ZTXT_PAYLOAD)
      [] kind = "empty" -> MakeChunk(NAME_zTXt, <<>>)

\* how many chunks a file holds between IHDR and IDAT, at most
MaxMid == 2

\* how many successful write_metadata calls one buffer sees, at most
MaxWrites == 2

MidLayouts == UNION {[1..n -> MidKinds] : n \in 0..MaxMid}

RECURSIVE MidBytes(_, _)
MidBytes(layout, i) ==
    IF i > Len(layout) THEN <<>>
    ELSE MidChunk(layout[i]) \o MidBytes(layout, i + 1)

PngFile(layout) ==
    PNG_SIGNATURE
    \o MakeChunk(NAME_IHDR, IHDR_PAYLOAD)
    \o MidBytes(layout, 1)
    \o MakeChunk(NAME_IDAT, IDAT_PAYLOAD)
    \o MakeChunk(NAME_IEND, <<>>)

InputFiles == {PngFile(layout) : layout \in MidLayouts}

(***************************************************************************)
(* Damaged files: one byte of the signature replaced, one bit of a chunk   *)
(* payload flipped (the CRC trailer left as it was), or bytes appended     *)
(* after the IEND chunk.                                                   *)
(***************************************************************************)
SignatureReplacements == {0, 10, 255}

FlipMasks == {1, 128}

\* a chunk of type IDAT with no payload and a wrong CRC
TRAILING_BYTES == <<0, 0, 0, 0, 73, 68, 65, 84, 1, 2, 3, 4>>

\* the chunks of a file an encoder wrote: [name, length, start offset]
RECURSIVE FileChunks(_, _)
FileChunks(f, pos) ==
    IF pos + 12 > Len(f) \/ f[pos + 1] # 0 THEN <<>>
    ELSE LET length == (f[pos + 2] * 256 + f[pos + 3]) * 256 + f[pos + 4]
             entry  == [name |-> SubSeq(f, pos + 5, pos + 8), length |-> length,
                        start |-> pos]
         IN  IF pos + 12 + length > Len(f) THEN <<>>
             ELSE IF entry.name = NAME_IEND THEN <<entry>>
             ELSE <<entry>> \o FileChunks(f, pos + 12 + length)

SignatureDamaged(f) ==
    { [f EXCEPT ![i] = v] : i \in 1..8, v \in SignatureReplacements } \ {f}

PayloadDamaged(f) ==
    LET chunks == FileChunks(f, 8)
    IN  UNION { { [f EXCEPT ![chunks[k].start + 8 + off] = Xor8(@, mask)] :
                    off \in {1, chunks[k].length}, mask \in FlipMasks } :
                k \in {j \in 1..Len(chunks) : chunks[j].length > 0} }

(***************************************************************************)
(* Metadata (metadata/get.rs).  image_file_directories is a sequence of    *)
(* IFDs [group, nr, tags], tags a sequence of 16-bit codes; a reference    *)
(* to an IFD or a tag is its 0-based position.                             *)
(***************************************************************************)
ExifTagGroups == {"GENERIC", "GPS"}

IfdNumbers == {0, 1}

TagCodes == {5, 7}

\* ImageFileDirectory::new_with_tags
new_with_tags(tags, group, generic_ifd_nr) ==
    [group |-> group, nr |-> generic_ifd_nr, tags |-> tags]

GroupRank(group) ==
    CASE group = "GENERIC" -> 0
      [] group = "EXIF" -> 1
      [] OTHER -> 2

\* the canonical order of identity keys: group, then generic IFD number
KeyBefore(a, b) ==
    \/ GroupRank(a.group) < GroupRank(b.group)
    \/ a.group = b.group /\ a.nr < b.nr

\* Metadata::sort_data: a stable sort by identity key
sort_insert(sorted, ifd) ==
    SubSeq(sorted, 1,
           Cardinality({i \in 1..Len(sorted) : ~KeyBefore(ifd, sorted[i])}))
    \o <<ifd>>
    \o SubSeq(sorted,
              Cardinality({i \in 1..Len(sorted) : ~KeyBefore(ifd, sorted[i])}) + 1,
              Len(sorted))

RECURSIVE sort_data(_)
sort_data(dirs) ==
    IF dirs = <<>> THEN <<>>
    ELSE sort_insert(sort_data(SubSeq(dirs, 1, Len(dirs) - 1)), dirs[Len(dirs)])

\* iter().filter(key matches).next(): the 1-based position, 0 for None
first_with_key(dirs, group, generic_ifd_nr) ==
    IF \E i \in 1..Len(dirs) :
           dirs[i].nr = generic_ifd_nr /\ dirs[i].group = group
    THEN CHOOSE i \in 1..Len(dirs) :
           /\ dirs[i].nr = generic_ifd_nr /\ dirs[i].group = group
           /\ \A j \in 1..(i - 1) :
                  ~(dirs[j].nr = generic_ifd_nr /\ dirs[j].group = group)
    ELSE 0

(***************************************************************************)
(* get_ifd_mut: push and sort if no IFD has the key, then return the       *)
(* first IFD with the key: [st, ifds, at].                                 *)
(***************************************************************************)
\* variant: the new IFD is pushed without looking for the key
get_ifd_mut_created_unchecked(dirs, group, generic_ifd_nr) ==
    sort_data(Append(dirs, new_with_tags(<<>>, group, generic_ifd_nr)))

\* variant: the new IFD is pushed and the collection is not sorted
get_ifd_mut_created_unsorted(dirs, group, generic_ifd_nr) ==
    IF first_with_key(dirs, group, generic_ifd_nr) = 0
    THEN Append(dirs, new_with_tags(<<>>, group, generic_ifd_nr))
    ELSE dirs

get_ifd_mut_created(dirs, group, generic_ifd_nr) ==
    IF first_with_key(dirs, group, generic_ifd_nr) = 0
    THEN sort_data(Append(dirs, new_with_tags(<<>>, group, generic_ifd_nr)))
    ELSE dirs

get_ifd_mut_found(dirs, at) ==
    IF at = 0 THEN [st |-> "panic", ifds |-> dirs, at |-> <<>>]
    ELSE [st |-> "Ok", ifds |-> dirs, at |-> <<at - 1>>]

get_ifd_mut_return(dirs, group, generic_ifd_nr) ==
    get_ifd_mut_found(dirs, first_with_key(dirs, group, generic_ifd_nr))

get_ifd_mut(dirs, group, generic_ifd_nr) ==
    get_ifd_mut_return(get_ifd_mut_created(dirs, group, generic_ifd_nr),
                       group, generic_ifd_nr)

(***************************************************************************)
(* get_tag_by_hex and GetTagIterator::next.  next returns                  *)
(* [st, at, iter]: st "Some" with the position at of the tag, "None", or   *)
(* "panic" for an index out of range.                                      *)
(***************************************************************************)
NoIterator ==
    [live |-> FALSE, current_ifd_index |-> 0, current_tag_index |-> 0,
     tag_hex_value |-> 0]

NoReturn == [st |-> "none", at |-> <<>>]

get_tag_by_hex(hex) ==
    [live |-> TRUE, current_ifd_index |-> 0, current_tag_index |-> 0,
     tag_hex_value |-> hex]

next_at(i, t, hex) ==
    [live |-> TRUE, current_ifd_index |-> i, current_tag_index |-> t,
     tag_hex_value |-> hex]

RECURSIVE next_loop(_, _, _, _)
RECURSIVE next_loop_noreset(_, _, _, _)
RECURSIVE next_loop_inclusive(_, _, _, _)
RECURSIVE next_tag(_, _, _, _)
\* variant: the tag cursor is not reset when the IFD cursor advances
next_loop_noreset(dirs, i, t, hex) ==
    IF ~(i < Len(dirs))
    THEN [st |-> "None", at |-> <<>>, iter |-> next_at(i, t, hex)]
    ELSE IF t < Len(dirs[i + 1].tags)
    THEN next_tag(dirs, i, t + 1, hex)
    ELSE next_loop(dirs, i + 1, t, hex)

\* variant: the tag cursor may reach the tag count before the IFD advances
next_loop_inclusive(dirs, i, t, hex) ==
    IF ~(i < Len(dirs))
    THEN [st |-> "None", at |-> <<>>, iter |-> next_at(i, t, hex)]
    ELSE IF t <= Len(dirs[i + 1].tags)
    THEN next_tag(dirs, i, t + 1, hex)
    ELSE next_loop(dirs, i + 1, 0, hex)

\* the while loop, from its condition
next_loop(dirs, i, t, hex) ==
    IF ~(i < Len(dirs))
    THEN [st |-> "None", at |-> <<>>, iter |-> next_at(i, t, hex)]
    ELSE IF t < Len(dirs[i + 1].tags)
    THEN next_tag(dirs, i, t + 1, hex)
    ELSE next_loop(dirs, i + 1, 0, hex)

\* after current_tag_index += 1: get_tags()[current_tag_index - 1]
next_tag(dirs, i, t, hex) ==
    IF ~(t - 1 < Len(dirs[i + 1].tags))
    THEN [st |-> "panic", at |-> <<>>, iter |-> next_at(i, t, hex)]
    ELSE IF dirs[i + 1].tags[t] = hex
    THEN [st |-> "Some", at |-> <<i, t - 1>>, iter |-> next_at(i, t, hex)]
    ELSE next_loop(dirs, i, t, hex)

next(dirs, it) ==
    next_loop(dirs, it.current_ifd_index, it.current_tag_index, it.tag_hex_value)

(***************************************************************************)
(* Inputs: containers as decoding or the caller's calls leave them, with   *)
(* at most one IFD per key, in canonical order.                            *)
(***************************************************************************)
MaxInitIfds == 2

InputTagLists == {<<>>, <<5>>, <<5, 7>>, <<7, 5, 5>>}

QueryCodes == TagCodes \cup {9}

InputIfds ==
    {new_with_tags(tags, group, nr) :
        tags \in InputTagLists, group \in ExifTagGroups, nr \in IfdNumbers}

InputContainers ==
    {dirs \in UNION {[1..n -> InputIfds] : n \in 0..MaxInitIfds} :
        \A i \in 1..(Len(dirs) - 1) : KeyBefore(dirs[i], dirs[i + 1])}

(***************************************************************************)
(* Malformed buffers: a file cut off inside or between chunks, a file with *)
(* a chunk whose type name is rejected (its CRC valid), a buffer shorter   *)
(* than the signature.                                                     *)
(***************************************************************************)
\* how much of a chunk with this payload length is kept
TruncateOffsets(length) ==
    {0, 4, 8, 8 + length, 8 + length + 3}
    \cup (IF length > 0 THEN {8 + length - 1} ELSE {})

Truncated(f) ==
    UNION { { SubSeq(f, 1, FileChunks(f, 8)[k].start + keep) :
                keep \in TruncateOffsets(FileChunks(f, 8)[k].length) } :
            k \in 1..Len(FileChunks(f, 8)) }

\* not UTF-8; UTF-8 but not ASCII; ASCII but no chunk type
RejectedNames == {<<255, 72, 68, 82>>, <<195, 169, 65, 66>>, <<97, 98, 99, 100>>}

MisnamedFiles ==
    { PNG_SIGNATURE \o MakeChunk(NAME_IHDR, IHDR_PAYLOAD)
      \o MakeChunk(name, OTHER_ZTXT_PAYLOAD)
      \o MakeChunk(NAME_IDAT, IDAT_PAYLOAD) \o MakeChunk(NAME_IEND, <<>>) :
      name \in RejectedNames }
    \cup
    { PNG_SIGNATURE \o MakeChunk(name, IHDR_PAYLOAD)
      \o MakeChunk(NAME_IDAT, IDAT_PAYLOAD) \o MakeChunk(NAME_IEND, <<>>) :
      name \in RejectedNames }

ShortBuffers == {SubSeq(PNG_SIGNATURE, 1, n) : n \in 0..7} \cup {<<0>>}

(***************************************************************************)
(* State: the caller's buffer and the last call on it.                     *)
(*   buf     the file buffer                                               *)
(*   pre     the buffer as it was when the last call began                 *)
(*   op      the last call ("none" before the first)                       *)
(*   res     its outcome [st, msg]                                         *)
(*   ret     what it returned: descriptors (parse_png), bytes              *)
(*           (read_metadata), <<>> otherwise                               *)
(*   arg     the result of metadata.encode() in the last write_metadata    *)
(*   writes  successful write_metadata calls so far                        *)
(*   clears  successful clear_metadata calls since the last write (0, 1,   *)
(*           2 for two or more)                                            *)
(*   lastw   <<bytes>> of the last successful write_metadata when no       *)
(*           clear_metadata or write_metadata call followed it, else <<>>  *)
(*   orig    the file as the encoder wrote it                              *)
(*   damage  what happened to it before the first call: "none",            *)
(*           "signature", "payload", "trailing", "truncated", "name" or    *)
(*           "short"                                                       *)
(***************************************************************************)
VARIABLES buf, pre, op, res, ret, arg, writes, clears, lastw, orig, damage

(***************************************************************************)
(* State: a Metadata container and the last call on it.                    *)
(*   ifds     image_file_directories                                       *)
(*   iter     the GetTagIterator the caller holds, if any                  *)
(*   mop      the last call ("none" before the first)                      *)
(*   marg     its arguments                                                *)
(*   mret     what it returned                                             *)
(*   mpre     image_file_directories when the call began                   *)
(*   yielded  the 0-based <<IFD index, tag index>> of the tags the         *)
(*            iterator has yielded                                         *)
(*   nones    how often it has returned None (0, 1, 2 for two or more)     *)
(***************************************************************************)
VARIABLES ifds, iter, mop, marg, mret, mpre, yielded, nones

pngvars == <<buf, pre, op, res, ret, arg, writes, clears, lastw, orig, damage>>

metavars == <<ifds, iter, mop, marg, mret, mpre, yielded, nones>>

vars == <<pngvars, metavars>>

NoArg == [ok |-> FALSE, bytes |-> <<>>]

NoCallYet ==
    /\ pre = buf
    /\ op = "none"
    /\ res = [st |-> "Ok", msg |-> ""]
    /\ ret = <<>>
    /\ arg = NoArg
    /\ writes = 0
    /\ clears = 0
    /\ lastw = <<>>

\* a fresh container (no IFDs) nobody has called yet
NoMetadataCallYet ==
    /\ iter = NoIterator
    /\ mop = "none"
    /\ marg = <<>>
    /\ mret = NoReturn
    /\ mpre = ifds
    /\ yielded = <<>>
    /\ nones = 0

Init ==
    /\ orig \in InputFiles
    /\ buf = orig
    /\ damage = "none"
    /\ NoCallYet
    /\ ifds = <<>>
    /\ NoMetadataCallYet

InitDamaged ==
    /\ orig \in InputFiles
    /\ \/ damage = "signature" /\ buf \in SignatureDamaged(orig)
       \/ damage = "payload" /\ buf \in PayloadDamaged(orig)
       \/ damage = "trailing" /\ buf = orig \o TRAILING_BYTES
    /\ NoCallYet
    /\ ifds = <<>>
    /\ NoMetadataCallYet

\* an abnormal abort ends the caller
Running == res.st # "panic"

CallParsePng ==
    /\ Running
    /\ \E r \in {parse_png(buf)} :
           /\ res' = [st |-> r.st, msg |-> r.msg]
           /\ ret' = r.chunks
    /\ op' = "parse_png"
    /\ pre' = buf
    /\ arg' = NoArg
    /\ UNCHANGED <<buf, writes, clears, lastw, orig, damage>>
    /\ UNCHANGED metavars

CallReadMetadata ==
    /\ Running
    /\ \E r \in {read_metadata(buf)} :
           /\ res' = [st |-> r.st, msg |-> r.msg]
           /\ ret' = r.data
    /\ op' = "read_metadata"
    /\ pre' = buf
    /\ arg' = NoArg
    /\ UNCHANGED <<buf, writes, clears, lastw, orig, damage>>
    /\ UNCHANGED metavars

CallClearMetadata ==
    /\ Running
    /\ \E r \in {clear_metadata(buf)} :
           /\ res' = [st |-> r.st, msg |-> r.msg]
           /\ buf' = r.buf
           /\ clears' = IF r.st = "Ok" THEN Min(clears + 1, 2) ELSE clears
    /\ op' = "clear_metadata"
    /\ pre' = buf
    /\ ret' = <<>>
    /\ arg' = NoArg
    /\ lastw' = <<>>
    /\ UNCHANGED <<writes, orig, damage>>
    /\ UNCHANGED metavars

CallWriteMetadata ==
    /\ Running
    /\ writes < MaxWrites
    /\ \E metadata \in MetaInputs, succeeds \in BOOLEAN :
         \E encoded \in {Metadata_encode(metadata, succeeds)} :
         \E r \in {write_metadata(buf, encoded)} :
             /\ res' = [st |-> r.st, msg |-> r.msg]
             /\ buf' = r.buf
             /\ arg' = encoded
             /\ writes' = IF r.st = "Ok" THEN writes + 1 ELSE writes
             /\ lastw' = IF r.st = "Ok" THEN <<encoded.bytes>> ELSE <<>>
    /\ op' = "write_metadata"
    /\ pre' = buf
    /\ ret' = <<>>
    /\ clears' = 0
    /\ UNCHANGED <<orig, damage>>
    /\ UNCHANGED metavars

Next ==
    \/ CallParsePng
    \/ CallReadMetadata
    \/ CallClearMetadata
    \/ CallWriteMetadata

\* calls on files as the encoder wrote them
Spec == Init /\ [][Next]_vars

\* calls on damaged files
SpecDamaged == InitDamaged /\ [][Next]_vars

InitMalformed ==
    /\ \/ damage = "truncated" /\ orig \in InputFiles /\ buf \in Truncated(orig)
       \/ damage = "name" /\ orig \in MisnamedFiles /\ buf = orig
       \/ damage = "short" /\ orig \in ShortBuffers /\ buf = orig
    /\ NoCallYet
    /\ ifds = <<>>
    /\ NoMetadataCallYet

\* calls on malformed buffers
SpecMalformed == InitMalformed /\ [][Next]_vars

InitMetadata ==
    /\ orig = PngFile(<<>>)
    /\ buf = orig
    /\ damage = "none"
    /\ NoCallYet
    /\ ifds \in InputContainers
    /\ NoMetadataCallYet

\* an abnormal abort ends the caller
MetadataRunning == mret.st # "panic"

\* the exclusive reference ends any iterator over the container
CallGetIfdMut ==
    /\ MetadataRunning
    /\ \E group \in ExifTagGroups, generic_ifd_nr \in IfdNumbers :
         \E r \in {get_ifd_mut(ifds, group, generic_ifd_nr)} :
             /\ ifds' = r.ifds
             /\ mret' = [st |-> r.st, at |-> r.at]
             /\ marg' = <<group, generic_ifd_nr>>
    /\ mop' = "get_ifd_mut"
    /\ mpre' = ifds
    /\ iter' = NoIterator
    /\ yielded' = <<>>
    /\ nones' = 0
    /\ UNCHANGED pngvars

CallGetTagByHex ==
    /\ MetadataRunning
    /\ \E hex \in QueryCodes :
           /\ iter' = get_tag_by_hex(hex)
           /\ marg' = <<hex>>
    /\ mop' = "get_tag_by_hex"
    /\ mret' = NoReturn
    /\ mpre' = ifds
    /\ yielded' = <<>>
    /\ nones' = 0
    /\ UNCHANGED <<ifds, pngvars>>

CallNext ==
    /\ MetadataRunning
    /\ iter.live
    /\ \E r \in {next(ifds, iter)} :
           /\ iter' = r.iter
           /\ mret' = [st |-> r.st, at |-> r.at]
           /\ yielded' = IF r.st = "Some" THEN Append(yielded, r.at) ELSE yielded
           /\ nones' = IF r.st = "None" THEN Min(nones + 1, 2) ELSE nones
    /\ mop' = "next"
    /\ marg' = <<>>
    /\ mpre' = ifds
    /\ UNCHANGED <<ifds, pngvars>>

NextMetadata ==
    \/ CallGetIfdMut
    \/ CallGetTagByHex
    \/ CallNext

\* calls on a Metadata container
SpecMetadata == InitMetadata /\ [][NextMetadata]_vars

(***************************************************************************)
(* What a buffer holds, read off its bytes by walking the length fields.   *)
(***************************************************************************)
ChunkBytesAt(f, c) == SubSeq(f, c.start + 1, c.start + 12 + c.length)

PayloadAt(f, c) == SubSeq(f, c.start + 9, c.start + 8 + c.length)

IsMetadataChunk(f, c) ==
    /\ c.name = NAME_zTXt
    /\ c.length >= Len(RAW_PROFILE_TYPE_EXIF)
    /\ SubSeq(PayloadAt(f, c), 1, Len(RAW_PROFILE_TYPE_EXIF)) = RAW_PROFILE_TYPE_EXIF

MetadataChunks(f) ==
    SelectSeq(FileChunks(f, 8), LAMBDA c : IsMetadataChunk(f, c))

UnrelatedChunks(f) ==
    SelectSeq(FileChunks(f, 8),
              LAMBDA c : c.name = NAME_zTXt /\ ~IsMetadataChunk(f, c))

UnrelatedBytes(f) ==
    [i \in 1..Len(UnrelatedChunks(f)) |-> ChunkBytesAt(f, UnrelatedChunks(f)[i])]

Descriptors(f) ==
    [i \in 1..Len(FileChunks(f, 8)) |->
        [name |-> FileChunks(f, 8)[i].name, length |-> FileChunks(f, 8)[i].length]]

MetadataPayload(generic_bytes) ==
    RAW_PROFILE_TYPE_EXIF \o compress_to_vec_zlib(encode_metadata_png(generic_bytes))

(***************************************************************************)
(* C1: round trip.  On a well-formed buffer write_metadata with metadata   *)
(* that encodes succeeds, and a read_metadata that follows a successful    *)
(* write_metadata succeeds and returns the bytes that were written.        *)
(***************************************************************************)
C1_RoundTrip ==
    /\ (op = "write_metadata" /\ arg.ok /\ parse_png(pre).st = "Ok")
           => res.st = "Ok"
    /\ (op = "read_metadata" /\ lastw # <<>>)
           => (res.st = "Ok" /\ ret = lastw[1])

(***************************************************************************)
(* C2: idempotent clearing.  After a clear_metadata that succeeded, the    *)
(* next clear_metadata succeeds too and leaves the buffer as it found it.  *)
(***************************************************************************)
C2_IdempotentClear ==
    op = "clear_metadata" =>
        /\ clears >= 1 => res.st = "Ok"
        /\ clears = 2 => buf = pre

C2_Witness ==
    /\ op = "clear_metadata"
    /\ res.st = "Ok"
    /\ clears = 2
    /\ Len(MetadataChunks(pre)) >= 1
    /\ Len(UnrelatedChunks(pre)) >= 1

(***************************************************************************)
(* C3: write overwrites.  After two or more successful write_metadata      *)
(* calls the buffer holds exactly one metadata chunk, and it carries the   *)
(* metadata of the last call.                                              *)
(***************************************************************************)
C3_WriteOverwrites ==
    (op = "write_metadata" /\ res.st = "Ok" /\ writes >= 2) =>
        /\ Len(MetadataChunks(buf)) = 1
        /\ PayloadAt(buf, MetadataChunks(buf)[1]) = MetadataPayload(arg.bytes)

(***************************************************************************)
(* C4: after a successful clear_metadata every zTXt chunk whose payload    *)
(* does not start with the profile prefix is still there, byte for byte    *)
(* and in the same order.                                                  *)
(***************************************************************************)
C4_UnrelatedUntouched ==
    (op = "clear_metadata" /\ res.st = "Ok") =>
        UnrelatedBytes(buf) = UnrelatedBytes(pre)

C4_Witness ==
    /\ op = "clear_metadata"
    /\ res.st = "Ok"
    /\ Len(UnrelatedChunks(pre)) >= 1
    /\ Len(MetadataChunks(pre)) >= 1
    /\ UnrelatedChunks(pre)[1].start < MetadataChunks(pre)[1].start
    /\ UnrelatedBytes(buf) # <<>>

(***************************************************************************)
(* C5: whenever clear_metadata or write_metadata returns an error, the     *)
(* buffer is what it was before the call.                                  *)
(***************************************************************************)
C5_ErrorLeavesBuffer ==
    (op \in {"clear_metadata", "write_metadata"} /\ res.st \notin {"Ok", "panic"})
        => buf = pre

C5_Witness ==
    /\ op = "write_metadata"
    /\ res.st = "EncodeError"
    /\ Len(MetadataChunks(pre)) >= 1
    /\ buf = pre

(***************************************************************************)
(* C6: a successful write_metadata on a buffer with no metadata chunk      *)
(* yields old[0..p] ++ new chunk ++ old[p..], p = 8 + the first chunk's    *)
(* payload length + 12, the new chunk being length, type, prefix,          *)
(* compressed data and CRC.                                                *)
(***************************************************************************)
C6_InsertAfterFirst ==
    (op = "write_metadata" /\ res.st = "Ok" /\ MetadataChunks(pre) = <<>>) =>
        buf = SubSeq(pre, 1, 8 + FileChunks(pre, 8)[1].length + 12)
              \o MakeChunk(NAME_zTXt, MetadataPayload(arg.bytes))
              \o SubSeq(pre, 8 + FileChunks(pre, 8)[1].length + 12 + 1, Len(pre))

C6_Witness ==
    /\ op = "write_metadata"
    /\ res.st = "Ok"
    /\ MetadataChunks(pre) = <<>>
    /\ Len(UnrelatedChunks(pre)) >= 1
    /\ Len(MetadataChunks(buf)) = 1
    /\ MetadataChunks(buf)[1].start = 8 + 13 + 12

(***************************************************************************)
(* C7: on a buffer that parses and holds more than one metadata chunk,     *)
(* clear_metadata succeeds and leaves no metadata chunk.                   *)
(***************************************************************************)
C7_ClearRemovesAll ==
    (op = "clear_metadata" /\ Len(MetadataChunks(pre)) > 1
        /\ parse_png(pre).st = "Ok")
        => (res.st = "Ok" /\ MetadataChunks(buf) = <<>>)

(***************************************************************************)
(* C8: CRC enforcement.  parse_png on a buffer in which one bit of a       *)
(* chunk's payload was flipped fails with InvalidData, checksum failure,   *)
(* and returns no descriptors.                                             *)
(***************************************************************************)
C8_CrcEnforced ==
    (op = "parse_png" /\ damage = "payload") =>
        /\ res = [st |-> "InvalidData", msg |-> MSG_CHECKSUM]
        /\ ret = <<>>

\* the flipped bit is in the last payload byte of the chunk before IEND
C8_Witness ==
    /\ op = "parse_png"
    /\ damage = "payload"
    /\ res.msg = MSG_CHECKSUM
    /\ pre[Len(orig) - 16] # orig[Len(orig) - 16]

(***************************************************************************)
(* C9: signature rejection.  parse_png on a buffer in which one of the     *)
(* first 8 bytes was replaced fails with InvalidData, invalid signature,   *)
(* and returns no descriptors.                                             *)
(***************************************************************************)
C9_SignatureRejected ==
    (op = "parse_png" /\ damage = "signature") =>
        /\ res = [st |-> "InvalidData", msg |-> MSG_SIGNATURE]
        /\ ret = <<>>

C9_Witness ==
    /\ op = "parse_png"
    /\ damage = "signature"
    /\ res.msg = MSG_SIGNATURE
    /\ pre[8] # PNG_SIGNATURE[8]
    /\ SubSeq(pre, 1, 7) = SubSeq(PNG_SIGNATURE, 1, 7)

(***************************************************************************)
(* C10: a successful parse_png returns one descriptor per chunk, in        *)
(* order, through the first IEND, which is the last descriptor; with bytes *)
(* appended after the IEND chunk it succeeds and returns what the buffer   *)
(* without them holds.                                                     *)
(***************************************************************************)
C10_ThroughFirstIend ==
    /\ (op = "parse_png" /\ res.st = "Ok") =>
           /\ ret = Descriptors(pre)
           /\ ret[Len(ret)].name = NAME_IEND
           /\ \A i \in 1..(Len(ret) - 1) : ret[i].name # NAME_IEND
    /\ (op = "parse_png" /\ damage = "trailing") =>
           /\ res.st = "Ok"
           /\ ret = Descriptors(SubSeq(pre, 1, Len(pre) - Len(TRAILING_BYTES)))

C10_Witness ==
    /\ op = "parse_png"
    /\ res.st = "Ok"
    /\ damage = "trailing"
    /\ SubSeq(pre, Len(pre) - Len(TRAILING_BYTES) + 1, Len(pre)) = TRAILING_BYTES
    /\ Len(ret) >= 4

(***************************************************************************)
(* C11: absence is not an error.  On a buffer that parses and holds no     *)
(* metadata chunk, read_metadata returns Other, "No metadata found!", and  *)
(* nothing else.                                                           *)
(***************************************************************************)
C11_AbsenceReported ==
    (op = "read_metadata" /\ MetadataChunks(pre) = <<>>
        /\ parse_png(pre).st = "Ok")
        => (res = [st |-> "Other", msg |-> MSG_NONE] /\ ret = <<>>)

(***************************************************************************)
(* What a container holds.                                                 *)
(***************************************************************************)
HasKey(dirs, group, generic_ifd_nr) ==
    \E i \in 1..Len(dirs) : dirs[i].group = group /\ dirs[i].nr = generic_ifd_nr

KeysUnique(dirs) ==
    \A i, j \in 1..Len(dirs) :
        (dirs[i].group = dirs[j].group /\ dirs[i].nr = dirs[j].nr) => i = j

\* the positions of the tags with the code, by IFD and then by tag
RECURSIVE TagsWithCode(_, _, _)
TagsWithCode(dirs, hex, i) ==
    IF i > Len(dirs) THEN <<>>
    ELSE SelectSeq([j \in 1..Len(dirs[i].tags) |-> <<i - 1, j - 1>>],
                   LAMBDA at : dirs[i].tags[at[2] + 1] = hex)
         \o TagsWithCode(dirs, hex, i + 1)

(***************************************************************************)
(* C12: IFD autocreate uniqueness.  No two IFDs of the container share a   *)
(* key; get_ifd_mut with an absent key makes the collection one longer,    *)
(* with a present key leaves its length, and returns the one IFD with the  *)
(* key.                                                                    *)
(***************************************************************************)
C12_IfdAutocreateUnique ==
    /\ KeysUnique(ifds)
    /\ mop = "get_ifd_mut" =>
        /\ mret.st = "Ok"
        /\ Len(ifds) = Len(mpre) + (IF HasKey(mpre, marg[1], marg[2]) THEN 0 ELSE 1)
        /\ ifds[mret.at[1] + 1].group = marg[1]
        /\ ifds[mret.at[1] + 1].nr = marg[2]

\* a second call with a key that an earlier call created
C12_Witness ==
    /\ mop = "get_ifd_mut"
    /\ mret.st = "Ok"
    /\ HasKey(mpre, marg[1], marg[2])
    /\ Len(ifds) = Len(mpre)
    /\ Len(ifds) > MaxInitIfds
    /\ ifds[mret.at[1] + 1].tags = <<>>

(***************************************************************************)
(* C13: iterator ordering and completeness.  What the iterator has         *)
(* yielded is always the beginning of the list of the tags with the code,  *)
(* ordered by IFD position and then tag position, and all of it once next  *)
(* has returned None; the container is as it was.                          *)
(***************************************************************************)
C13_IteratorOrder ==
    iter.live =>
        /\ Len(yielded) <= Len(TagsWithCode(ifds, iter.tag_hex_value, 1))
        /\ yielded = SubSeq(TagsWithCode(ifds, iter.tag_hex_value, 1), 1, Len(yielded))
        /\ nones >= 1 => yielded = TagsWithCode(ifds, iter.tag_hex_value, 1)
        /\ (mop = "next" /\ mret.st = "Some") => mret.at = yielded[Len(yielded)]
        /\ ifds = mpre

\* tags with the code in two IFDs, a tag with another code passed over
C13_Witness ==
    /\ mop = "next"
    /\ mret.st = "None"
    /\ nones = 1
    /\ Len(yielded) >= 2
    /\ yielded[1][1] # yielded[Len(yielded)][1]
    /\ \E j \in 1..Len(ifds[yielded[1][1] + 1].tags) :
           ifds[yielded[1][1] + 1].tags[j] # iter.tag_hex_value

(***************************************************************************)
(* C14: invalid chunk name.  parse_png on a buffer holding a complete      *)
(* chunk with a valid CRC and a rejected type name fails with Other,       *)
(* "Invalid PNG chunk name".                                               *)
(***************************************************************************)
C14_InvalidName ==
    (op = "parse_png" /\ damage = "name") =>
        (res = [st |-> "Other", msg |-> MSG_NAME] /\ ret = <<>>)

(***************************************************************************)
(* C15: truncated stream.  parse_png on a buffer with the valid signature  *)
(* that ends before its IEND chunk is complete fails with Other, at the    *)
(* read that falls short.                                                  *)
(***************************************************************************)
C15_Truncated ==
    (op = "parse_png" /\ damage = "truncated") =>
        /\ res.st = "Other"
        /\ res.msg \in {MSG_START, MSG_DATA, MSG_CRC}
        /\ ret = <<>>

\* the buffer ends where the next chunk would start, and no IEND was read
C15_Witness ==
    /\ op = "parse_png"
    /\ damage = "truncated"
    /\ res = [st |-> "Other", msg |-> MSG_START]
    /\ Len(pre) > 8
    /\ Len(FileChunks(pre, 8)) >= 2

(***************************************************************************)
(* C16: every step returns a result.  parse_png, read_metadata and         *)
(* clear_metadata end with success or an error value, never with an abort. *)
(***************************************************************************)
C16_NoAbort ==
    op \in {"parse_png", "read_metadata", "clear_metadata"} => res.st # "panic"

(***************************************************************************)
(* C17: well-formedness is preserved.  After a successful clear_metadata   *)
(* or write_metadata parse_png succeeds on the buffer; the chunk           *)
(* write_metadata inserted declares the byte count of its payload (prefix  *)
(* and compressed data) and ends with the CRC-32 of type and payload.      *)
(***************************************************************************)
C17_StaysWellFormed ==
    (op \in {"clear_metadata", "write_metadata"} /\ res.st = "Ok") =>
        /\ parse_png(buf).st = "Ok"
        /\ op = "write_metadata" =>
            /\ Len(FileChunks(buf, 8)) = Len(FileChunks(pre, 8)) + 1
            /\ FileChunks(buf, 8)[2].name = NAME_zTXt
            /\ FileChunks(buf, 8)[2].length = Len(MetadataPayload(arg.bytes))
            /\ PayloadAt(buf, FileChunks(buf, 8)[2]) = MetadataPayload(arg.bytes)
            /\ SubSeq(ChunkBytesAt(buf, FileChunks(buf, 8)[2]),
                      9 + FileChunks(buf, 8)[2].length,
                      12 + FileChunks(buf, 8)[2].length)
               = checksum(NAME_zTXt \o MetadataPayload(arg.bytes))

\* a second write, onto a buffer that holds chunks of both kinds
C17_Witness ==
    /\ op = "write_metadata"
    /\ res.st = "Ok"
    /\ writes = 2
    /\ Len(UnrelatedChunks(buf)) >= 1
    /\ Len(MetadataChunks(buf)) >= 2

(***************************************************************************)
(* C18: sorted IFD collection.  The collection is in canonical order by    *)
(* key after every get_ifd_mut, and get_ifd_mut leaves every IFD that was  *)
(* there with the tags it had, in their order.                             *)
(***************************************************************************)
C18_SortedIfds ==
    /\ \A i \in 1..(Len(ifds) - 1) : KeyBefore(ifds[i], ifds[i + 1])
    /\ mop = "get_ifd_mut" =>
           \A i \in 1..Len(mpre) : \E j \in 1..Len(ifds) : ifds[j] = mpre[i]

\* the created IFD went in front of IFDs that hold tags
C18_Witness ==
    /\ mop = "get_ifd_mut"
    /\ Len(ifds) = Len(mpre) + 1
    /\ mret.at[1] + 1 < Len(ifds)
    /\ ifds[Len(ifds)].tags # <<>>
    /\ ifds[Len(ifds)] = mpre[Len(mpre)]

(***************************************************************************)
(* C19: tag iterator cursor safety and exhaustion.  next never indexes out *)
(* of range, its cursors stay within the IFD count and the current IFD's   *)
(* tag count, and once it has returned None it returns None again.         *)
(***************************************************************************)
C19_CursorSafe ==
    /\ mret.st # "panic"
    /\ iter.live =>
        /\ iter.current_ifd_index <= Len(ifds)
        /\ iter.current_ifd_index < Len(ifds) =>
               iter.current_tag_index <= Len(ifds[iter.current_ifd_index + 1].tags)
        /\ (mop = "next" /\ mret.st = "Some") => nones = 0
        /\ (mop = "next" /\ nones >= 1) => mret.st = "None"

\* None a second time, on a container with an empty IFD and yielded tags
C19_Witness ==
    /\ mop = "next"
    /\ mret.st = "None"
    /\ nones = 2
    /\ yielded # <<>>
    /\ \E i \in 1..Len(ifds) : ifds[i].tags = <<>>
    /\ iter.current_ifd_index = Len(ifds)
====
